---------------------------- MODULE Spec2Model ----------------------------
(***************************************************************************)
(* Concurrency core of the education-platform backend:                     *)
(*   - the admission semaphore and the preload/AI task pair of the upload  *)
(*     endpoints (routers/physics_router.py, routers/electric_router.py);  *)
(*   - the in-memory verification-code store                               *)
(*     (services/verification_service.py) and the auth endpoints that use  *)
(*     it (routers/auth_router.py);                                        *)
(*   - the daily animation quota (routers/animation_router.py,             *)
(*     services/membership_service.py).                                    *)
(*                                                                         *)
(* The upload handler is a coroutine on a single-threaded event loop: the  *)
(* code between two awaits runs atomically, so each action below is one    *)
(* such stretch.  The two units run on worker threads and settle at any    *)
(* time.  asyncio.Semaphore is modelled as CPython 3.11 implements it      *)
(* (locked / acquire / release / _wake_up_next).                           *)
(***************************************************************************)
EXTENDS Integers, Sequences, FiniteSets, TLC

(* ------------------------------ bounds -------------------------------- *)
\* upload requests of one run; a session's id is its arrival rank
MaxSessions == 7
\* last tick of the perf_counter clock
MaxTime == 2
\* clock resolution: ticks of perf_counter per millisecond
TicksPerMs == 2
\* clock resolution: ticks of datetime.now() per second
TicksPerSec == 2
\* number of advances of the wall clock in one run
MaxSteps == 4
\* the random generator draws the codes 0..MaxCode
MaxCode == 1
\* requests to the auth endpoints in flight together
MaxRequests == 3
\* create_animation requests of one user in flight together
MaxAnimRequests == 2
\* animations the user gets to save in the day that is looked at
MaxAnimations == 7
\* upload requests to each of the two upload endpoints
MaxUploads == 6

(* ------------------------- program constants --------------------------- *)
\* asyncio.Semaphore(5)
Ceiling == 5
\* ThreadPoolExecutor(max_workers=10)
max_workers == 10
\* config/settings.py
FREE_USER_DAILY_LIMIT == 5
VERIFICATION_CODE_EXPIRE_MINUTES == 5
VERIFICATION_CODE_LENGTH == 6
SMS_RATE_LIMIT_SECONDS == 60
\* the intervals can_send is asked about: the default and a short one
Intervals == {SMS_RATE_LIMIT_SECONDS, 1}

Sessions == 1..MaxSessions
\* the request whose units may fail: the first that can find the semaphore full
FaultySessions == {Ceiling + 1}

NoResponse ==
    [kind |-> "none", sid |-> 0, embed_ms |-> 0, ai_ms |-> 0, doubao_error |-> FALSE,
     wait_ms |-> 0, total_ms |-> 0, processing_ms |-> 0]

NotGathered == [a |-> "none", b |-> "none"]

VARIABLES
    perf,              \* time.perf_counter(), in ticks
    sem_value,         \* _upload_semaphore._value
    waiters,           \* _upload_semaphore._waiters: the sessions whose future is queued
    futDone,           \* the queued futures that are done (set_result was called)
    pc,                \* where each upload_image coroutine stands
    unitA,             \* preload_image on its worker thread
    unitB,             \* analyze_*_image on its worker thread
    request_start,     \* local request_start of each handler
    processing_start,  \* local processing_start of each handler
    arrived,           \* number of requests received so far
    admitted,          \* history: sessions in the order they entered the protected block
    blocked,           \* history: "full" for a caller that found no free slot,
                       \*   "freed" once release() ran since, "no" otherwise
    acquires,          \* history: times acquire() returned to each session
    releases,          \* history: times each session called release()
    response,          \* what the step just taken returned to its client, if
                       \*   anything, with the processing_ms it logged
    gathered,          \* history: what the two unit functions had done when that
                       \*   step took the result of gather
    clock,             \* datetime.now(), in ticks
    store,             \* VerificationCodeStore._store
    reply,             \* what the store call of the step just taken returned (old:
                       \*   history, the store the call found)
    steps,             \* history: number of clock advances so far
    issued,            \* history, per key: when the last code was issued, if that
                       \*   is less than the resend interval ago, and how often
                       \*   verify_code has accepted a code since the last issuance
    handler,           \* where each send-code / register / reset-password
                       \*   coroutine stands, with its key and the code it
                       \*   presents, in the order the requests came in
    animations,        \* rows of the user in the animations table
    usage,             \* animation_count of the user's rows of today in
                       \*   user_usage_records, in the order they were inserted
    creator,           \* where each create_animation coroutine stands, with the
                       \*   UserUsageRecord its session holds and its last
                       \*   response, for the coroutines that ever ran
    routers            \* per upload router module: its _upload_semaphore (value,
                       \*   waiters, done futures), the number of requests its
                       \*   endpoint has received and the requests inside the
                       \*   block of its handler

admVars == <<perf, sem_value, waiters, futDone, pc, unitA, unitB, request_start,
             processing_start, arrived, admitted, blocked, acquires, releases, response,
             gathered>>

storeVars == <<clock, store, reply, steps, issued>>

authVars == <<handler>>

animVars == <<animations, usage, creator>>

routerVars == <<routers>>

vars == <<admVars, storeVars, authVars, animVars, routerVars>>

(* ----------------------- asyncio.Semaphore ----------------------------- *)
\* locked() as asyncio had it before its waiters were made to count
locked_value_only == sem_value = 0

\* locked() letting one caller too many through
locked_off_by_one == sem_value < 0 \/ Len(waiters) > 0

\* Semaphore.locked(): no free slot, or somebody is queued (no future of this
\* program is ever cancelled)
locked == sem_value = 0 \/ Len(waiters) > 0

\* the first queued future that is not done, as a set of at most one session
FirstNotDone(w, done) ==
    LET nd == {i \in 1..Len(w) : w[i] \notin done}
    IN  IF nd = {} THEN {} ELSE {w[CHOOSE i \in nd : \A j \in nd : i <= j]}

\* _wake_up_next() that sets the future without taking the slot for it
wake_up_next_keeps_value(v, w, d) == <<v, d \cup FirstNotDone(w, d)>>

\* Semaphore._wake_up_next() on value v, queue w, done futures d:
\* the <<value, done futures>> it leaves
wake_up_next(v, w, d) ==
    LET f == FirstNotDone(w, d)
    IN  IF f = {} THEN <<v, d>> ELSE <<v - 1, d \cup f>>

\* release() that gives the slot back and wakes nobody
release_lost_wakeup(v, w, d) == <<v + 1, d>>

\* Semaphore.release(): the <<value, done futures>> it leaves
release(v, w, d) == wake_up_next(v + 1, w, d)

\* the tail of Semaphore.acquire() once its future is done: the future leaves
\* the queue and, if a slot is free, the next waiter is woken
acquire_resume(v, w, d, s) ==
    LET w1 == SelectSeq(w, LAMBDA x : x # s)
        d1 == d \ {s}
        nx == IF v > 0 THEN wake_up_next(v, w1, d1) ELSE <<v, d1>>
    IN  <<nx[1], w1, nx[2]>>

\* acquire() and release() around the block with no finally: an exception
\* skips release()
aexit_skipped_by_exception(v, w, d, exc) ==
    IF exc THEN <<v, d, 0>> ELSE <<wake_up_next(v + 1, w, d)[1], wake_up_next(v + 1, w, d)[2], 1>>

\* `async with _upload_semaphore` leaves the block, normally or by an
\* exception (exc): __aexit__ calls release() either way.
\* <<value, done futures, release() calls made>>
aexit(v, w, d, exc) ==
    LET r == release(v, w, d) IN <<r[1], r[2], 1>>

(* --------------------------- task pair --------------------------------- *)
\* int((t1 - t0) * 1000) for a perf_counter difference given in ticks
MsOf(ticks) == ticks \div TicksPerMs

AFaults == {"raise"}
BFaults == {"raise", "fail", "malformed"}
AOutcomes == {"ok"} \cup AFaults
BOutcomes == {"ok"} \cup BFaults

\* preload_task() whose except branch returns a duration like any other
preload_task_no_sentinel(outcome, d) == [raised |-> FALSE, value |-> d]

\* preload_task(): what the coroutine does with what preload_image did; d is
\* the duration preload_image measured
preload_task(outcome, d) ==
    IF outcome = "raise"
      THEN [raised |-> FALSE, value |-> -1]
      ELSE [raised |-> FALSE, value |-> d]

\* ai_task() with no try/except around the executor call
ai_task_no_except(outcome, d) ==
    IF outcome = "raise"
      THEN [raised |-> TRUE, isdict |-> TRUE, ai_ms |-> -1, error |-> TRUE]
      ELSE [raised |-> FALSE, isdict |-> (outcome # "malformed"),
            ai_ms |-> IF outcome = "fail" THEN -1 ELSE d, error |-> outcome = "fail"]

\* ai_task(): what the coroutine does with what analyze_*_image did.
\* analyze_*_image returns a dictionary with its duration ("ok"), a dictionary
\* with ai_ms -1 and the error it caught ("fail"), raises ("raise"), or
\* returns something that is no dictionary ("malformed")
ai_task(outcome, d) ==
    IF outcome \in {"raise", "fail"}
      THEN [raised |-> FALSE, isdict |-> TRUE, ai_ms |-> -1, error |-> TRUE]
      ELSE [raised |-> FALSE, isdict |-> (outcome # "malformed"), ai_ms |-> d,
            error |-> FALSE]

\* gather under a timeout that has run out: the handler goes on whatever the
\* units do
GatherDone_timed_out(s) == pc[s] = "running"

\* the handler awaits preload_task() alone, ai_task() left running behind it
GatherDone_preload_only(s) == unitA[s] = "settled"

\* asyncio.wait(..., return_when=FIRST_COMPLETED) in place of gather
GatherDone_first_completed(s) == unitA[s] = "settled" \/ unitB[s] = "settled"

\* asyncio.gather(preload_task(), ai_task()) has a result for session s: both
\* coroutines have returned
GatherDone(s) == unitA[s] = "settled" /\ unitB[s] = "settled"

\* upload_image from the return of gather to its own return, for the task
\* results embed and ai: gather re-raises what a task raised; the log line
\* calls ai_result.get; the response carries the merged result
Respond(s, embed, ai) ==
    IF embed.raised \/ ai.raised
      THEN [NoResponse EXCEPT !.kind = "unit_exception", !.sid = s]
    ELSE IF ~ai.isdict
      THEN [NoResponse EXCEPT !.kind = "handler_exception", !.sid = s]
    ELSE [kind |-> "ok", sid |-> s,
          embed_ms |-> embed.value,
          ai_ms |-> ai.ai_ms,
          doubao_error |-> ai.error,
          wait_ms |-> MsOf(processing_start[s] - request_start[s]),
          total_ms |-> MsOf(perf - request_start[s]),
          processing_ms |-> MsOf(perf - processing_start[s])]

(* ----------------------------- actions --------------------------------- *)
AdmInit ==
    /\ perf = 0
    /\ sem_value = Ceiling
    /\ waiters = <<>>
    /\ futDone = {}
    /\ pc = [s \in Sessions |-> "idle"]
    /\ unitA = [s \in Sessions |-> "none"]
    /\ unitB = [s \in Sessions |-> "none"]
    /\ request_start = [s \in Sessions |-> 0]
    /\ processing_start = [s \in Sessions |-> 0]
    /\ arrived = 0
    /\ admitted = <<>>
    /\ blocked = [s \in Sessions |-> "no"]
    /\ acquires = [s \in Sessions |-> 0]
    /\ releases = [s \in Sessions |-> 0]
    /\ response = NoResponse
    /\ gathered = NotGathered

\* acquire() returned: the body of `async with _upload_semaphore:` up to the
\* await of gather takes processing_start and dispatches both units
EnterBlock(s) ==
    /\ pc' = [pc EXCEPT ![s] = "running"]
    /\ processing_start' = [processing_start EXCEPT ![s] = perf]
    /\ unitA' = [unitA EXCEPT ![s] = "run"]
    /\ unitB' = [unitB EXCEPT ![s] = "run"]
    /\ admitted' = Append(admitted, s)
    /\ acquires' = [acquires EXCEPT ![s] = @ + 1]

\* upload_image up to its first suspension: request_start, then acquire()
Arrive(s) ==
    /\ UNCHANGED <<storeVars, authVars, animVars, routerVars>>
    /\ s = arrived + 1
    /\ arrived' = s
    /\ request_start' = [request_start EXCEPT ![s] = perf]
    /\ response' = NoResponse
    /\ gathered' = NotGathered
    /\ blocked' = [blocked EXCEPT ![s] = IF sem_value <= 0 THEN "full" ELSE "no"]
    /\ IF ~locked
         THEN /\ sem_value' = sem_value - 1
              /\ EnterBlock(s)
              /\ UNCHANGED <<waiters, futDone>>
         ELSE /\ waiters' = Append(waiters, s)
              /\ pc' = [pc EXCEPT ![s] = "waiting"]
              /\ UNCHANGED <<sem_value, futDone, unitA, unitB, processing_start,
                             admitted, acquires>>
    /\ UNCHANGED <<perf, releases>>

\* acquire() resumes after `await fut`: the woken tasks run in the order their
\* futures were set, which is the order of the queue
Resume(s) ==
    /\ UNCHANGED <<storeVars, authVars, animVars, routerVars>>
    /\ pc[s] = "waiting"
    /\ s \in futDone
    /\ s = Head(waiters)
    /\ LET r == acquire_resume(sem_value, waiters, futDone, s)
       IN  /\ sem_value' = r[1]
           /\ waiters' = r[2]
           /\ futDone' = r[3]
    /\ EnterBlock(s)
    /\ response' = NoResponse
    /\ gathered' = NotGathered
    /\ UNCHANGED <<perf, request_start, arrived, blocked, releases>>

\* the outcomes the unit functions of session s can have
OutcomesA(s) == IF s \in FaultySessions THEN AOutcomes ELSE {"ok"}
OutcomesB(s) == IF s \in FaultySessions THEN BOutcomes ELSE {"ok"}

\* preload_task() that calls run_in_executor again after preload_image has
\* returned or raised
SettleA_retries(s) ==
    /\ UNCHANGED <<storeVars, authVars, animVars, routerVars>>
    /\ pc[s] = "running"
    /\ unitA[s] \in {"run", "settled"}
    /\ unitA' = [unitA EXCEPT ![s] = IF @ = "run" THEN "settled" ELSE "run"]
    /\ response' = NoResponse
    /\ gathered' = NotGathered
    /\ UNCHANGED <<perf, sem_value, waiters, futDone, pc, unitB, request_start,
                   processing_start, arrived, admitted, blocked, acquires, releases>>

\* preload_image returns or raises on its worker thread; which of the two is
\* read when gather hands the results over
SettleA(s) ==
    /\ UNCHANGED <<storeVars, authVars, animVars, routerVars>>
    /\ pc[s] = "running"
    /\ unitA[s] = "run"
    /\ unitA' = [unitA EXCEPT ![s] = "settled"]
    /\ response' = NoResponse
    /\ gathered' = NotGathered
    /\ UNCHANGED <<perf, sem_value, waiters, futDone, pc, unitB, request_start,
                   processing_start, arrived, admitted, blocked, acquires, releases>>

\* analyze_*_image returns or raises on its worker thread; which of the two
\* is read when gather hands the results over
SettleB(s) ==
    /\ UNCHANGED <<storeVars, authVars, animVars, routerVars>>
    /\ pc[s] = "running"
    /\ unitB[s] = "run"
    /\ unitB' = [unitB EXCEPT ![s] = "settled"]
    /\ response' = NoResponse
    /\ gathered' = NotGathered
    /\ UNCHANGED <<perf, sem_value, waiters, futDone, pc, unitA, request_start,
                   processing_start, arrived, admitted, blocked, acquires, releases>>

\* upload_image resumes from `await asyncio.gather(...)` and runs to its
\* return: the log line, the exit of the `async with` block, the response.
\* oA and oB are what the two unit functions did, dA and dB the durations
\* they measured.  The results gather handed over are gone with the handler;
\* a unit function whose result was not awaited stays on its thread.
Finish(s) ==
    /\ UNCHANGED <<storeVars, authVars, animVars, routerVars>>
    /\ pc[s] = "running"
    /\ GatherDone(s)
    /\ \E oA \in OutcomesA(s), oB \in OutcomesB(s) :
       \E dA \in 0..MsOf(perf - processing_start[s]) :
       \E dB \in 0..MsOf(perf - processing_start[s]) :
         LET a    == IF unitA[s] = "settled" THEN oA ELSE unitA[s]
             b    == IF unitB[s] = "settled" THEN oB ELSE unitB[s]
             resp == Respond(s, preload_task(a, dA), ai_task(b, dB))
             x    == aexit(sem_value, waiters, futDone, resp.kind # "ok")
         IN  /\ response' = resp
             /\ gathered' = [a |-> a, b |-> b]
             /\ sem_value' = x[1]
             /\ futDone' = x[2]
             /\ releases' = [releases EXCEPT ![s] = @ + x[3]]
             /\ blocked' = [t \in Sessions |->
                              IF t = s THEN "no"
                              ELSE IF x[3] > 0 /\ blocked[t] = "full" THEN "freed"
                              ELSE blocked[t]]
    /\ pc' = [pc EXCEPT ![s] = "done"]
    /\ unitA' = [unitA EXCEPT ![s] = IF @ = "settled" THEN "none" ELSE @]
    /\ unitB' = [unitB EXCEPT ![s] = IF @ = "settled" THEN "none" ELSE @]
    /\ request_start' = [request_start EXCEPT ![s] = 0]
    /\ processing_start' = [processing_start EXCEPT ![s] = 0]
    /\ UNCHANGED <<perf, waiters, arrived, admitted, acquires>>

\* time passes
Tick ==
    /\ UNCHANGED <<storeVars, authVars, animVars, routerVars>>
    /\ perf < MaxTime
    /\ perf' = perf + 1
    /\ response' = NoResponse
    /\ gathered' = NotGathered
    /\ UNCHANGED <<sem_value, waiters, futDone, pc, unitA, unitB, request_start,
                   processing_start, arrived, admitted, blocked, acquires, releases>>

AdmNext ==
    \E s \in Sessions : Arrive(s) \/ Resume(s) \/ SettleA(s) \/ SettleB(s) \/ Finish(s)

\* all requests but the last have arrived at time 0: the latest Ceiling of them
\* hold the slots, their preload done and their AI analysis running; the
\* earlier ones are done
Early == {s \in Sessions : s < MaxSessions - Ceiling}
Holders == {s \in Sessions : MaxSessions - Ceiling <= s /\ s < MaxSessions}

TimedInit ==
    /\ perf = 0
    /\ sem_value = 0
    /\ waiters = <<>>
    /\ futDone = {}
    /\ pc = [s \in Sessions |-> IF s \in Early THEN "done"
                                ELSE IF s \in Holders THEN "running" ELSE "idle"]
    /\ unitA = [s \in Sessions |-> IF s \in Holders THEN "settled" ELSE "none"]
    /\ unitB = [s \in Sessions |-> IF s \in Holders THEN "run" ELSE "none"]
    /\ request_start = [s \in Sessions |-> 0]
    /\ processing_start = [s \in Sessions |-> 0]
    /\ arrived = MaxSessions - 1
    /\ admitted = [i \in 1..(MaxSessions - 1) |-> i]
    /\ blocked = [s \in Sessions |-> "no"]
    /\ acquires = [s \in Sessions |-> IF s < MaxSessions THEN 1 ELSE 0]
    /\ releases = [s \in Sessions |-> IF s \in Early THEN 1 ELSE 0]
    /\ response = NoResponse
    /\ gathered = NotGathered

\* all requests but the last two have arrived: the latest Ceiling of them hold
\* the slots, their preload done and their AI analysis running; the earlier
\* ones are done
QueueEarly == {s \in Sessions : s < MaxSessions - Ceiling - 1}
QueueHolders == {s \in Sessions : MaxSessions - Ceiling - 1 <= s /\ s < MaxSessions - 1}

QueueInit ==
    /\ perf = 0
    /\ sem_value = 0
    /\ waiters = <<>>
    /\ futDone = {}
    /\ pc = [s \in Sessions |-> IF s \in QueueEarly THEN "done"
                                ELSE IF s \in QueueHolders THEN "running" ELSE "idle"]
    /\ unitA = [s \in Sessions |-> IF s \in QueueHolders THEN "settled" ELSE "none"]
    /\ unitB = [s \in Sessions |-> IF s \in QueueHolders THEN "run" ELSE "none"]
    /\ request_start = [s \in Sessions |-> 0]
    /\ processing_start = [s \in Sessions |-> 0]
    /\ arrived = MaxSessions - 2
    /\ admitted = [i \in 1..(MaxSessions - 2) |-> i]
    /\ blocked = [s \in Sessions |-> "no"]
    /\ acquires = [s \in Sessions |-> IF s < MaxSessions - 1 THEN 1 ELSE 0]
    /\ releases = [s \in Sessions |-> IF s \in QueueEarly THEN 1 ELSE 0]
    /\ response = NoResponse
    /\ gathered = NotGathered

(* ---------------------- verification-code store ------------------------ *)
\* None: the value of dict.get for a missing key
None == [code |-> <<>>, expire_at |-> -1, created_at |-> -1]

Phones == {"13800138000"}
Scenes == {"register", "reset_password"}
\* key = (phone_number, scene)
Keys == Phones \X Scenes

RateTicks(seconds) == seconds * TicksPerSec
ExpireTicks(minutes) == minutes * 60 * TicksPerSec

\* int(x) of Python for x = n / d, d > 0: truncation toward zero
IntTrunc(n, d) == IF n >= 0 THEN n \div d ELSE -((-n) \div d)

\* the decimal digits of n, most significant first, padded to length
RECURSIVE DigitsOf(_, _)
DigitsOf(n, length) ==
    IF length = 0 THEN <<>> ELSE Append(DigitsOf(n \div 10, length - 1), n % 10)

\* VerificationService.generate_code(length): the strings random.randint can
\* produce, as digit sequences (the generator drawing numbers up to MaxCode)
generate_code(length) == {DigitsOf(n, length) : n \in 0..MaxCode}

\* the codes a client may present: those that can be issued and a shorter one
Candidates == generate_code(VERIFICATION_CODE_LENGTH) \cup {<<0>>}

\* set() that keeps a record the key already has
store_set_if_absent(st, key, code, expire_minutes, now) ==
    IF st[key] # None THEN st
    ELSE [st EXCEPT ![key] = [code |-> code,
                              expire_at |-> now + ExpireTicks(expire_minutes),
                              created_at |-> now]]

\* VerificationCodeStore.set at time now: the store it leaves
store_set(st, key, code, expire_minutes, now) ==
    [st EXCEPT ![key] = [code |-> code,
                         expire_at |-> now + ExpireTicks(expire_minutes),
                         created_at |-> now]]

\* get() of a store that is keyed by the phone number alone
store_get_any_scene(st, key, now) ==
    LET ks == {k \in Keys : k[1] = key[1] /\ st[k] # None /\ now <= st[k].expire_at}
    IN  IF ks = {} THEN <<None.code, st>>
        ELSE <<st[CHOOSE k \in ks : TRUE].code, st>>

\* get() that takes a record for expired from the instant expire_at on
store_get_expired_at_deadline(st, key, now) ==
    IF st[key] = None THEN <<None.code, st>>
    ELSE IF now >= st[key].expire_at THEN <<None.code, [st EXCEPT ![key] = None]>>
    ELSE <<st[key].code, st>>

\* get() that never looks at expire_at
store_get_ignores_expiry(st, key, now) == <<st[key].code, st>>

\* VerificationCodeStore.get at time now: <<code or None.code, the store it leaves>>
store_get(st, key, now) ==
    LET data == st[key]
    IN  IF data = None THEN <<None.code, st>>
        ELSE IF now > data.expire_at THEN <<None.code, [st EXCEPT ![key] = None]>>
        ELSE <<data.code, st>>

\* delete() whose write has not happened yet when the next request runs
store_delete_deferred(st, key) == st

\* VerificationCodeStore.delete: the store it leaves
store_delete(st, key) == [st EXCEPT ![key] = None]

\* can_send() that rounds the remaining wait up
can_send_rounds_up(st, key, rate_limit_seconds, now) ==
    LET data == st[key]
        elapsed == now - data.created_at
        left == RateTicks(rate_limit_seconds) - elapsed
    IN  IF data = None THEN <<TRUE, 0>>
        ELSE IF left > 0 THEN <<FALSE, (left + TicksPerSec - 1) \div TicksPerSec>>
        ELSE <<TRUE, 0>>

\* VerificationCodeStore.can_send at time now: <<allowed, wait seconds>>
can_send(st, key, rate_limit_seconds, now) ==
    LET data == st[key]
        elapsed == now - data.created_at
    IN  IF data = None THEN <<TRUE, 0>>
        ELSE IF elapsed < RateTicks(rate_limit_seconds)
          THEN <<FALSE, IntTrunc(RateTicks(rate_limit_seconds) - elapsed, TicksPerSec)>>
        ELSE <<TRUE, 0>>

\* cleanup_expired() that sweeps a record from the instant expire_at on
cleanup_expired_at_deadline(st, now) ==
    [k \in Keys |-> IF st[k] # None /\ now >= st[k].expire_at THEN None ELSE st[k]]

\* VerificationCodeStore.cleanup_expired at time now: the store it leaves
cleanup_expired(st, now) ==
    [k \in Keys |-> IF st[k] # None /\ now > st[k].expire_at THEN None ELSE st[k]]

\* generate_and_store_code() whose set() has not happened yet when the next
\* request runs: the check and the write are two steps
generate_and_store_code_defers_set(st, key, code, now) ==
    IF ~can_send(st, key, SMS_RATE_LIMIT_SECONDS, now)[1]
      THEN <<FALSE, None.code, can_send(st, key, SMS_RATE_LIMIT_SECONDS, now)[2], st>>
      ELSE <<TRUE, code, 0, st>>

\* generate_and_store_code() that stores the code before it checks the rate
generate_and_store_code_checks_late(st, key, code, now) ==
    LET cs == can_send(st, key, SMS_RATE_LIMIT_SECONDS, now)
        st1 == [st EXCEPT ![key] = [code |-> code,
                   expire_at |-> now + ExpireTicks(VERIFICATION_CODE_EXPIRE_MINUTES),
                   created_at |-> now]]
    IN  IF ~cs[1] THEN <<FALSE, None.code, cs[2], st1>> ELSE <<TRUE, code, 0, st1>>

\* VerificationService.generate_and_store_code at time now, code being what
\* generate_code would draw: <<success, code, wait seconds, the store it leaves>>
generate_and_store_code(st, key, code, now) ==
    LET cs == can_send(st, key, SMS_RATE_LIMIT_SECONDS, now)
    IN  IF ~cs[1] THEN <<FALSE, None.code, cs[2], st>>
        ELSE <<TRUE, code, 0,
               store_set(st, key, code, VERIFICATION_CODE_EXPIRE_MINUTES, now)>>

\* verify_code() called with delete_after_verify = False
verify_code_keeps_record(st, key, code, now) ==
    IF store_get(st, key, now)[1] = None.code
      THEN <<FALSE, "not_found", store_get(st, key, now)[2]>>
    ELSE IF store_get(st, key, now)[1] # code
      THEN <<FALSE, "mismatch", store_get(st, key, now)[2]>>
    ELSE <<TRUE, "ok", store_get(st, key, now)[2]>>

\* verify_code() that drops the record on a wrong code as well
verify_code_burns_on_mismatch(st, key, code, now) ==
    IF store_get(st, key, now)[1] = None.code
      THEN <<FALSE, "not_found", store_get(st, key, now)[2]>>
    ELSE <<store_get(st, key, now)[1] = code,
           IF store_get(st, key, now)[1] = code THEN "ok" ELSE "mismatch",
           [st EXCEPT ![key] = None]>>

\* VerificationService.verify_code (delete_after_verify = True) at time now:
\* <<success, message, the store it leaves>>
verify_code(st, key, code, now) ==
    LET g == store_get(st, key, now)
    IN  IF g[1] = None.code THEN <<FALSE, "not_found", g[2]>>
        ELSE IF g[1] # code THEN <<FALSE, "mismatch", g[2]>>
        ELSE <<TRUE, "ok", store_delete(g[2], key)>>

NoReply ==
    [op |-> "none", key |-> <<"", "">>, ok |-> FALSE, code |-> <<>>, wait |-> 0,
     msg |-> "", interval |-> 0, old |-> [k \in Keys |-> None], since |-> -1]

NeverIssued == [at |-> -1, wins |-> 0]

StoreInit ==
    /\ clock = 0
    /\ store = [k \in Keys |-> None]
    /\ reply = NoReply
    /\ steps = 0
    /\ issued = [k \in Keys |-> NeverIssued]

\* a caller asks can_send(phone, scene, interval)
CanSend(key, interval) ==
    /\ UNCHANGED <<admVars, authVars, animVars, routerVars>>
    /\ LET cs == can_send(store, key, interval, clock)
       IN  reply' = [NoReply EXCEPT !.op = "can_send", !.key = key, !.ok = cs[1],
                                    !.wait = cs[2], !.interval = interval,
                                    !.old = store]
    /\ UNCHANGED <<clock, store, steps, issued>>

\* send_verification_code calls generate_and_store_code(phone, scene)
GenerateAndStore(key) ==
    \E code \in generate_code(VERIFICATION_CODE_LENGTH) :
        LET g == generate_and_store_code(store, key, code, clock)
        IN  /\ UNCHANGED <<admVars, authVars, animVars, routerVars>>
            /\ store' = g[4]
            /\ reply' = [NoReply EXCEPT !.op = "generate", !.key = key, !.ok = g[1],
                                        !.code = g[2], !.wait = g[3],
                                        !.old = store,
                                        !.since = IF g[1] /\ issued[key].at >= 0
                                                    THEN clock - issued[key].at
                                                    ELSE -1]
            /\ issued' = IF g[1]
                           THEN [issued EXCEPT ![key] =
                                   [at |-> clock, wins |-> 0]]
                           ELSE issued
            /\ UNCHANGED <<clock, steps>>

\* register / reset_password call verify_code(phone, scene, code)
VerifyCode(key, code) ==
    /\ UNCHANGED <<admVars, authVars, animVars, routerVars>>
    /\ LET v == verify_code(store, key, code, clock)
       IN  /\ store' = v[3]
           /\ reply' = [NoReply EXCEPT !.op = "verify", !.key = key, !.ok = v[1],
                                       !.code = code, !.msg = v[2],
                                       !.old = store]
           /\ issued' = IF v[1] THEN [issued EXCEPT ![key].wins = @ + 1] ELSE issued
    /\ UNCHANGED <<clock, steps>>

\* somebody runs the sweep
CleanupExpired ==
    /\ UNCHANGED <<admVars, authVars, animVars, routerVars>>
    /\ store' = cleanup_expired(store, clock)
    /\ store' # store
    /\ reply' = [NoReply EXCEPT !.op = "cleanup", !.old = store]
    /\ UNCHANGED <<clock, steps, issued>>

\* the advances of the wall clock a run is made of: half a second, just under
\* the resend interval, the lifetime of a code
ClockSteps ==
    {1, RateTicks(SMS_RATE_LIMIT_SECONDS) - 1, ExpireTicks(VERIFICATION_CODE_EXPIRE_MINUTES)}

\* time passes
Advance(d) ==
    /\ UNCHANGED <<admVars, authVars, animVars, routerVars>>
    /\ steps < MaxSteps
    /\ steps' = steps + 1
    /\ clock' = clock + d
    /\ reply' = NoReply
    /\ issued' = [k \in Keys |->
                    IF clock' - issued[k].at >= RateTicks(SMS_RATE_LIMIT_SECONDS)
                      THEN [issued[k] EXCEPT !.at = -1]
                      ELSE issued[k]]
    /\ UNCHANGED store

StoreNext ==
    \/ \E k \in Keys : \E i \in Intervals : CanSend(k, i)
    \/ \E k \in Keys : GenerateAndStore(k)
    \/ \E k \in Keys : \E c \in Candidates : VerifyCode(k, c)
    \/ CleanupExpired
    \/ \E d \in ClockSteps : Advance(d)

(* ------------------------- auth endpoints ------------------------------ *)
Requests == 1..MaxRequests

\* no request has come in
AuthInit == handler = <<>>

\* send_verification_code that takes the code back when the SMS failed
on_sms_result_rolls_back(st, key, sms_success) ==
    IF sms_success THEN st ELSE store_delete(st, key)

\* send_verification_code after the SMS provider has answered
\* (sms_success): 200 on success, 500 on failure; the store is not touched
\* either way
on_sms_result(st, key, sms_success) == st

\* send_verification_code from its first line to its return: the checks of
\* the request, generate_and_store_code, 429 if it refused, then the SMS.
\* SMSService.send_verification_code is a coroutine that awaits nothing (the
\* provider's client is called synchronously), so the handler is not
\* suspended between the issuance and its answer.
SendCode(r, key) ==
    /\ UNCHANGED <<admVars, animVars, routerVars>>
    /\ r = Len(handler) + 1
    /\ \E code \in generate_code(VERIFICATION_CODE_LENGTH) : \E sms_success \in BOOLEAN :
         LET g == generate_and_store_code(store, key, code, clock)
         IN  /\ store' = IF g[1] THEN on_sms_result(g[4], key, sms_success) ELSE g[4]
             /\ reply' = [NoReply EXCEPT !.op = "generate", !.key = key, !.ok = g[1],
                                         !.code = g[2], !.wait = g[3], !.old = store,
                                         !.since = IF g[1] /\ issued[key].at >= 0
                                                     THEN clock - issued[key].at
                                                     ELSE -1]
             /\ issued' = IF g[1]
                            THEN [issued EXCEPT ![key] = [at |-> clock, wins |-> 0]]
                            ELSE issued
             /\ handler' = Append(handler,
                              [pc |-> IF ~g[1] THEN "limited"
                                      ELSE IF sms_success THEN "sent" ELSE "sms_failed",
                               kind |-> "send", key |-> key, code |-> g[2]])
    /\ UNCHANGED <<clock, steps>>

\* register / reset_password up to `await db.execute`: verify_code, 400 if it
\* refused
Verify(r, key, code) ==
    /\ UNCHANGED <<admVars, animVars, routerVars>>
    /\ r = Len(handler) + 1
    /\ LET v == verify_code(store, key, code, clock)
       IN  /\ store' = v[3]
           /\ reply' = [NoReply EXCEPT !.op = "verify", !.key = key, !.ok = v[1],
                                       !.code = code, !.msg = v[2], !.old = store]
           /\ issued' = IF v[1] THEN [issued EXCEPT ![key].wins = @ + 1] ELSE issued
           /\ handler' = Append(handler,
                            [pc |-> IF v[1] THEN "db" ELSE "rejected",
                             kind |-> "verify", key |-> key, code |-> code])
    /\ UNCHANGED <<clock, steps>>

\* register fails if the phone number has a user, reset_password if it has
\* none
user_check(scene, exists) == IF scene = "register" THEN ~exists ELSE exists

\* the database answered: 400 / 404 from the check of the user, or the
\* handler goes on to its return
DbDone(r) ==
    /\ UNCHANGED <<admVars, animVars, routerVars>>
    /\ r <= Len(handler)
    /\ handler[r].pc = "db"
    /\ \E exists \in BOOLEAN :
         handler' = [handler EXCEPT ![r].pc =
                       IF user_check(handler[r].key[2], exists) THEN "done" ELSE "user_error"]
    /\ reply' = NoReply
    /\ UNCHANGED <<clock, store, steps, issued>>

AuthNext ==
    \E r \in Requests :
      \/ \E k \in Keys : SendCode(r, k)
      \/ \E k \in Keys : \E c \in Candidates : Verify(r, k, c)
      \/ DbDone(r)

(* ------------------------ animation quota ------------------------------ *)
AnimRequests == 1..MaxAnimRequests

\* a session that has loaded no UserUsageRecord
NoRecord == [row |-> 0, animation_count |-> 0]

Fresh == [pc |-> "idle", record |-> NoRecord, status |-> 0]

AnimInit ==
    /\ animations = 0
    /\ usage = <<>>
    /\ creator = <<>>

\* scalar_one_or_none() on the user's rows of today, for a session that holds
\* the record held: "many" for MultipleResultsFound; a row the session has
\* loaded before keeps the attributes it was loaded with (expire_on_commit is
\* False and the query does not populate existing objects)
scalar_one_or_none(rows, held) ==
    IF Len(rows) > 1 THEN [found |-> "many", record |-> held]
    ELSE IF Len(rows) = 0 THEN [found |-> "none", record |-> held]
    ELSE IF held.row = 1 THEN [found |-> "one", record |-> held]
    ELSE [found |-> "one", record |-> [row |-> 1, animation_count |-> rows[1]]]

\* check_usage_limit of a user who is no member, given what get_today_usage
\* read: allowed iff today's count is under the limit
check_usage_limit(q) ==
    (IF q.found = "one" THEN q.record.animation_count ELSE 0) < FREE_USER_DAILY_LIMIT

\* the coroutine of request slot r, Fresh if none has run in it yet
CreatorOf(r) == IF r \in DOMAIN creator THEN creator[r] ELSE Fresh

\* create_animation up to `await db.commit()`: check_usage_limit with its
\* read of today's record; 403 if the limit is reached, 500 if the read raised
CheckUsage(r) ==
    /\ UNCHANGED <<admVars, storeVars, authVars, routerVars>>
    /\ r <= Len(creator) + 1
    /\ CreatorOf(r).pc = "idle"
    /\ animations < MaxAnimations
    /\ LET q == scalar_one_or_none(usage, NoRecord)
           c == IF q.found = "many" THEN [Fresh EXCEPT !.status = 500]
                ELSE IF ~check_usage_limit(q) THEN [Fresh EXCEPT !.status = 403]
                ELSE [pc |-> "allowed", record |-> q.record, status |-> 0]
       IN  creator' = IF r \in DOMAIN creator THEN [creator EXCEPT ![r] = c]
                      ELSE Append(creator, c)
    /\ UNCHANGED <<animations, usage>>

\* db.add(animation), commit and refresh
CommitAnimation(r) ==
    /\ UNCHANGED <<admVars, storeVars, authVars, routerVars>>
    /\ r \in DOMAIN creator
    /\ creator[r].pc = "allowed"
    /\ animations' = animations + 1
    /\ creator' = [creator EXCEPT ![r].pc = "created"]
    /\ UNCHANGED usage

\* increment_usage up to `await db.commit()`: the read of today's record;
\* 500 if it raised, the animation staying committed
LoadRecord(r) ==
    /\ UNCHANGED <<admVars, storeVars, authVars, routerVars>>
    /\ r \in DOMAIN creator
    /\ creator[r].pc = "created"
    /\ LET q == scalar_one_or_none(usage, creator[r].record)
       IN  creator' = [creator EXCEPT ![r] =
                         IF q.found = "many" THEN [Fresh EXCEPT !.status = 500]
                         ELSE [pc |-> "loaded",
                               record |-> IF q.found = "one" THEN q.record ELSE NoRecord,
                               status |-> 0]]
    /\ UNCHANGED <<animations, usage>>

\* increment_usage from `record.animation_count += 1` or the new record to the
\* commit, then the response
StoreRecord(r) ==
    /\ UNCHANGED <<admVars, storeVars, authVars, routerVars>>
    /\ r \in DOMAIN creator
    /\ creator[r].pc = "loaded"
    /\ usage' = IF creator[r].record = NoRecord
                  THEN Append(usage, 1)
                  ELSE [usage EXCEPT ![creator[r].record.row] =
                          creator[r].record.animation_count + 1]
    /\ creator' = [creator EXCEPT ![r] = [Fresh EXCEPT !.status = 200]]
    /\ UNCHANGED animations

AnimNext ==
    \E r \in AnimRequests :
      CheckUsage(r) \/ CommitAnimation(r) \/ LoadRecord(r) \/ StoreRecord(r)

(* ----------------------- the two upload routers ------------------------ *)
\* routers/physics_router.py and routers/electric_router.py
Endpoints == {"physics", "electric"}

Uploads == 1..MaxUploads

\* both routers taking the semaphore of the physics router
upload_semaphore_shared(e) == "physics"

\* the module whose _upload_semaphore the handler of endpoint e names: its own
upload_semaphore(e) == e

\* Semaphore.locked() of a semaphore with value v and queue w
is_locked(v, w) == v = 0 \/ Len(w) > 0

RouterInit ==
    routers = [e \in Endpoints |->
                 [value |-> Ceiling, waiters |-> <<>>, done |-> {}, arrived |-> 0,
                  inside |-> {}]]

\* the handler of endpoint e up to its first suspension: acquire(), and into
\* the block if the semaphore is not locked
UploadArrive(e) ==
    /\ UNCHANGED <<admVars, storeVars, authVars, animVars>>
    /\ routers[e].arrived < MaxUploads
    /\ LET m == upload_semaphore(e)
           u == routers[e].arrived + 1
           r1 == [routers EXCEPT ![e].arrived = u]
       IN  routers' =
             IF ~is_locked(routers[m].value, routers[m].waiters)
               THEN [[r1 EXCEPT ![m].value = @ - 1] EXCEPT ![e].inside = @ \cup {u}]
               ELSE [r1 EXCEPT ![m].waiters = Append(@, <<e, u>>)]

\* acquire() of request u of endpoint e resumes, its future done
UploadResume(e, u) ==
    /\ UNCHANGED <<admVars, storeVars, authVars, animVars>>
    /\ LET m == upload_semaphore(e)
       IN  /\ Len(routers[m].waiters) > 0
           /\ Head(routers[m].waiters) = <<e, u>>
           /\ <<e, u>> \in routers[m].done
           /\ LET x == acquire_resume(routers[m].value, routers[m].waiters,
                                      routers[m].done, <<e, u>>)
              IN  routers' = [[routers EXCEPT ![m].value = x[1], ![m].waiters = x[2],
                                              ![m].done = x[3]]
                                EXCEPT ![e].inside = @ \cup {u}]

\* both units of request u of endpoint e have settled: the handler leaves
\* the block and releases
UploadLeave(e, u) ==
    /\ UNCHANGED <<admVars, storeVars, authVars, animVars>>
    /\ u \in routers[e].inside
    /\ LET m == upload_semaphore(e)
           x == release(routers[m].value, routers[m].waiters, routers[m].done)
       IN  routers' = [[routers EXCEPT ![m].value = x[1], ![m].done = x[2]]
                         EXCEPT ![e].inside = @ \ {u}]

RouterNext ==
    \E e \in Endpoints :
      \/ UploadArrive(e)
      \/ \E u \in Uploads : UploadResume(e, u) \/ UploadLeave(e, u)

(* -------------------------- specifications ----------------------------- *)
Init == AdmInit /\ StoreInit /\ AuthInit /\ AnimInit /\ RouterInit

Next == AdmNext

\* the upload endpoint, time standing still
Spec == Init /\ [][Next]_vars

InitTimed == TimedInit /\ StoreInit /\ AuthInit /\ AnimInit /\ RouterInit

NextTimed == AdmNext \/ Tick

\* the upload endpoint from a full house on, with the clock running
SpecTimed == InitTimed /\ [][NextTimed]_vars

\* the verification-code store
SpecStore == Init /\ [][StoreNext]_vars

\* the auth endpoints, their requests in flight at one instant
SpecAuth == Init /\ [][AuthNext]_vars

\* create_animation for one user who is no member, within one day
SpecAnim == Init /\ [][AnimNext]_vars

InitQueue == QueueInit /\ StoreInit /\ AuthInit /\ AnimInit /\ RouterInit

\* the event loop runs every callback that is ready (a woken acquire(), a
\* handler whose gather is done), and every dispatched unit function returns
\* or raises in the end
Fairness ==
    \A s \in Sessions :
      /\ WF_vars(Resume(s))
      /\ WF_vars(SettleA(s))
      /\ WF_vars(SettleB(s))
      /\ WF_vars(Finish(s))

\* the upload endpoint from a full house on, two requests still to come, every
\* unit settling and the event loop running what is ready
SpecLive == InitQueue /\ [][Next]_vars /\ Fairness

\* the two upload endpoints side by side
SpecRouters == Init /\ [][RouterNext]_vars

(* ------------------------------ claims --------------------------------- *)
\* the sessions that hold a slot: inside the protected block, or woken with
\* the slot already taken for them
Outstanding == {s \in Sessions : acquires[s] > releases[s] \/ s \in futDone}

WaitMs(s) == MsOf(processing_start[s] - request_start[s])

\* C1: in every reachable state, whatever the interleaving of the upload
\* requests, at most 5 sessions hold an admission slot they have not released.
C1_AtMostCeilingSlots == Cardinality(Outstanding) <= Ceiling

\* the ceiling is reached while a caller is queued
C1_Witness == Cardinality(Outstanding) = Ceiling /\ Len(waiters) > 0

\* C2: every acquisition is followed by exactly one release on every exit path
\* (both units fine, a unit failing, an exception inside the block): a session
\* never releases more than it acquired, holds its slot while in the block, and
\* has released it once when it is done.
C2_ReleasedExactlyOnce ==
    /\ \A s \in Sessions :
         /\ releases[s] <= acquires[s]
         /\ acquires[s] <= 1
         /\ pc[s] = "running" => acquires[s] = 1 /\ releases[s] = 0
         /\ pc[s] = "done" => acquires[s] = 1 /\ releases[s] = 1
    /\ sem_value + Cardinality(Outstanding) = Ceiling

\* a session left the block by an exception, its slot released
C2_Witness ==
    /\ response.kind = "handler_exception"
    /\ releases[response.sid] = 1
    /\ pc[response.sid] = "done"

\* C3: callers are admitted in the order they called acquire: the sessions
\* enter the block in arrival order, every queued caller arrived after every
\* admitted one, and the woken waiters are the longest-waiting ones.
C3_Fifo ==
    /\ \A i, j \in 1..Len(admitted) : i < j => admitted[i] < admitted[j]
    /\ \A i \in 1..Len(waiters) : \A j \in 1..Len(admitted) : admitted[j] < waiters[i]
    /\ \A i, j \in 1..Len(waiters) :
         i < j => /\ waiters[i] < waiters[j]
                  /\ waiters[j] \in futDone => waiters[i] \in futDone

\* two callers are queued, the first of them woken, and a slot is free
C3_Witness ==
    /\ Len(waiters) = 2
    /\ waiters[1] \in futDone
    /\ waiters[2] \notin futDone

\* C4 as stated: a caller that found all 5 slots held is not admitted before a
\* holder released, and the wait time it observes is greater than 0.
C4_WaitPositive ==
    \A s \in Sessions :
      /\ blocked[s] = "full" => pc[s] = "waiting" /\ s \notin futDone
      /\ pc[s] = "running" /\ blocked[s] = "freed" => WaitMs(s) > 0

\* C4 amended: a caller that found all 5 slots held is not admitted before a
\* holder released; the wait time it observes is the whole number of
\* milliseconds between its request_start and its admission, which is 0 when a
\* slot was released within the millisecond.
C4_WaitWholeMs ==
    \A s \in Sessions :
      /\ blocked[s] = "full" => pc[s] = "waiting" /\ s \notin futDone
      /\ pc[s] = "running" /\ blocked[s] = "freed" =>
           /\ WaitMs(s) >= 0
           /\ WaitMs(s) * TicksPerMs <= processing_start[s] - request_start[s]
           /\ processing_start[s] - request_start[s] < (WaitMs(s) + 1) * TicksPerMs
           /\ releases[s] = 0 /\ acquires[s] = 1

\* a caller that found the semaphore full is in the block, a millisecond later
C4_Witness ==
    \E s \in Sessions : pc[s] = "running" /\ blocked[s] = "freed" /\ WaitMs(s) = 1

\* C5: gather returns only after both units have settled: whenever a handler
\* has gone on from gather to its response, both unit functions had returned
\* or raised.
C5_BothSettled ==
    response.kind # "none" => gathered.a \in AOutcomes /\ gathered.b \in BOutcomes

\* a response was produced after the two units settled differently
C5_Witness ==
    /\ response.kind = "ok"
    /\ gathered.a = "ok"
    /\ gathered.b = "fail"

\* C6: a failing unit does not abort its sibling; the merged result carries -1
\* (and, for the AI unit, the error) for the failed unit and the duration of
\* the one that succeeded: a duration is -1 exactly when its unit failed.
C6_SentinelIffFailed ==
    response.kind = "ok" =>
      /\ response.embed_ms = -1 <=> gathered.a \in AFaults
      /\ gathered.a = "ok" => response.embed_ms >= 0
      /\ response.ai_ms = -1 <=> gathered.b \in {"raise", "fail"}
      /\ gathered.b = "ok" => response.ai_ms >= 0
      /\ response.doubao_error <=> gathered.b \in {"raise", "fail"}

\* preload failed, the AI analysis succeeded, and the response has both
C6_Witness ==
    /\ response.kind = "ok"
    /\ gathered.a = "raise" /\ response.embed_ms = -1
    /\ gathered.b = "ok" /\ response.ai_ms >= 0 /\ ~response.doubao_error

\* C7: the orchestrator never fails: whatever the two units did (succeed, fail,
\* raise), the handler gets the merged result and answers with it; no exception
\* of a unit reaches the handler.
C7_NoUnitException ==
    /\ response.kind # "unit_exception"
    /\ response.kind # "none" /\ gathered.b # "malformed" => response.kind = "ok"

\* both units raised and the response is the merged result
C7_Witness ==
    /\ response.kind = "ok"
    /\ gathered.a = "raise"
    /\ gathered.b = "raise"
    /\ response.embed_ms = -1 /\ response.ai_ms = -1

\* C8: can_send(key, interval) returns (True, 0) iff the key has no record or
\* the time since its created_at is at least the interval; otherwise (False, w)
\* with w the remaining time rounded down to seconds.  Right after an issuance
\* can_send(key, 60) is (False, 60); 61 seconds after it, (True, 0).
C8_CanSend ==
    reply.op = "can_send" =>
      LET rec == store[reply.key]
          elapsed == clock - rec.created_at
          limit == reply.interval * TicksPerSec
      IN  /\ reply.ok <=> (rec = None \/ elapsed >= limit)
          /\ reply.ok => reply.wait = 0
          /\ ~reply.ok => reply.wait = (limit - elapsed) \div TicksPerSec
          /\ rec # None /\ elapsed = 0 /\ reply.interval = 60 =>
               ~reply.ok /\ reply.wait = 60
          /\ rec # None /\ elapsed >= 61 * TicksPerSec /\ reply.interval = 60 =>
               reply.ok /\ reply.wait = 0

\* can_send(key, 60) is allowed 61 seconds after the issuance
C8_Witness ==
    /\ reply.op = "can_send"
    /\ reply.interval = 60
    /\ store[reply.key] # None
    /\ clock - store[reply.key].created_at = 61 * TicksPerSec
    /\ reply.ok

\* C9: generate_and_store_code for a key whose cooldown has not elapsed returns
\* the rate-limit failure, generates no code and leaves the store as it was.
C9_RateLimitedLeavesStore ==
    reply.op = "generate" =>
      /\ ~reply.ok <=> ~can_send(reply.old, reply.key, SMS_RATE_LIMIT_SECONDS, clock)[1]
      /\ ~reply.ok =>
           /\ store = reply.old
           /\ reply.code = None.code
           /\ reply.wait = can_send(reply.old, reply.key, SMS_RATE_LIMIT_SECONDS, clock)[2]

\* a resend was refused half a second after the issuance
C9_Witness ==
    /\ reply.op = "generate"
    /\ ~reply.ok
    /\ reply.wait = SMS_RATE_LIMIT_SECONDS - 1
    /\ store[reply.key] # None

\* C10: a successful generate_and_store_code leaves, as the one record of the
\* key, the new code with created_at = now and expire_at = now + the lifetime;
\* a code issued before no longer verifies, unless it is the same code.
C10_Overwrites ==
    reply.op = "generate" /\ reply.ok =>
      /\ store[reply.key] =
           [code |-> reply.code,
            expire_at |-> clock + VERIFICATION_CODE_EXPIRE_MINUTES * 60 * TicksPerSec,
            created_at |-> clock]
      /\ \A c \in Candidates :
           verify_code(store, reply.key, c, clock)[1] <=> c = reply.code

\* a live record with another code was replaced
C10_Witness ==
    /\ reply.op = "generate"
    /\ reply.ok
    /\ reply.old[reply.key] # None
    /\ reply.old[reply.key].code # reply.code
    /\ clock <= reply.old[reply.key].expire_at

\* C11: a code is single-use: between two issuances verify_code succeeds at
\* most once for a key; the success deletes the record, and from then on, until
\* a new code is issued, verify_code with that code (or any) is "not found".
C11_SingleUse ==
    /\ \A k \in Keys :
         /\ issued[k].wins <= 1
         /\ issued[k].wins = 1 =>
              /\ store[k] = None
              /\ \A c \in Candidates :
                   verify_code(store, k, c, clock) = <<FALSE, "not_found", store>>
    /\ reply.op = "verify" /\ reply.ok =>
         /\ reply.old[reply.key].code = reply.code
         /\ store = [reply.old EXCEPT ![reply.key] = None]

\* the code accepted before is presented again and is not found
C11_Witness ==
    /\ reply.op = "verify"
    /\ reply.msg = "not_found"
    /\ issued[reply.key].wins = 1
    /\ reply.code \in generate_code(VERIFICATION_CODE_LENGTH)

\* C12: verify_code with a wrong code on a live record answers "mismatch" and
\* leaves the store as it was, so that the issued code still verifies after it,
\* however many wrong codes were tried.
C12_MismatchKeepsRecord ==
    reply.op = "verify" /\ reply.msg = "mismatch" =>
      /\ ~reply.ok
      /\ store = reply.old
      /\ store[reply.key] # None
      /\ store[reply.key].code # reply.code
      /\ clock <= store[reply.key].expire_at
      /\ verify_code(store, reply.key, store[reply.key].code, clock)[1]

\* a code of the right length, but not the issued one, was refused
C12_Witness ==
    /\ reply.op = "verify"
    /\ reply.msg = "mismatch"
    /\ reply.code \in generate_code(VERIFICATION_CODE_LENGTH)
    /\ store[reply.key] # None

\* C13: after the lifetime of a code has gone by without a successful
\* verification, verify_code answers "not found" even for the issued code, and
\* that read removes the record.
C13_ExpiredNotFound ==
    reply.op = "verify" /\ reply.old[reply.key] # None
      /\ clock > reply.old[reply.key].expire_at =>
        /\ ~reply.ok
        /\ reply.msg = "not_found"
        /\ store = [reply.old EXCEPT ![reply.key] = None]

\* the issued code was presented after its lifetime and its record is gone
C13_Witness ==
    /\ reply.op = "verify"
    /\ reply.old[reply.key] # None
    /\ reply.code = reply.old[reply.key].code
    /\ clock > reply.old[reply.key].expire_at
    /\ reply.msg = "not_found"
    /\ store[reply.key] = None

\* C14 as stated: a record is live iff now < expire_at; at now = expire_at
\* verify_code with the issued code answers "not found".
C14_LiveIffBefore ==
    reply.op = "verify" /\ reply.old[reply.key] # None =>
      (reply.msg = "not_found" <=> clock >= reply.old[reply.key].expire_at)

\* C14 amended: a record is live iff now <= expire_at: verify_code finds it at
\* the instant expire_at and no longer after it, and cleanup_expired removes
\* exactly the records with now > expire_at.
C14_LiveIffNotAfter ==
    /\ reply.op = "verify" /\ reply.old[reply.key] # None =>
         (reply.msg = "not_found" <=> clock > reply.old[reply.key].expire_at)
    /\ reply.op = "cleanup" =>
         \A k \in Keys :
           store[k] = IF reply.old[k] # None /\ clock > reply.old[k].expire_at
                        THEN None ELSE reply.old[k]

\* the issued code is accepted at the instant expire_at
C14_Witness ==
    /\ reply.op = "verify"
    /\ reply.ok
    /\ clock = reply.old[reply.key].expire_at

\* C17: for every key, two successive successful issuances are at least the
\* resend interval (60 s) apart, whatever calls of verify_code, can_send or
\* cleanup_expired come between them.
C17_IssuancesSpaced ==
    reply.op = "generate" /\ reply.ok =>
      reply.since = -1 \/ reply.since >= RateTicks(SMS_RATE_LIMIT_SECONDS)

\* the send-code requests for key k that issued a code, those that were
\* refused, and the register / reset requests whose code was accepted
Issuers(k) ==
    {r \in DOMAIN handler : handler[r].kind = "send" /\ handler[r].key = k
                        /\ handler[r].pc \in {"sent", "sms_failed"}}
Refused(k) ==
    {r \in DOMAIN handler : handler[r].kind = "send" /\ handler[r].key = k
                        /\ handler[r].pc = "limited"}
Accepted(k) ==
    {r \in DOMAIN handler : handler[r].kind = "verify" /\ handler[r].key = k
                        /\ handler[r].pc \in {"db", "done", "user_error"}}

\* C15: check and write of generate_and_store_code are one step for the other
\* requests: of the send-code requests for one key in flight at one instant
\* exactly one issues a code and the others get the rate-limit failure, unless
\* a code was consumed by a verification in between.
C15_OneIssuer ==
    \A k \in Keys :
      /\ Cardinality(Issuers(k)) <= 1 + Cardinality(Accepted(k))
      /\ Accepted(k) = {} /\ Issuers(k) \cup Refused(k) # {} =>
           Cardinality(Issuers(k)) = 1

\* one request issued, two were refused
C15_Witness ==
    \E k \in Keys :
      /\ Accepted(k) = {}
      /\ Cardinality(Issuers(k)) = 1
      /\ Cardinality(Refused(k)) = 2

\* C16: read, compare and delete of verify_code are one step for the other
\* requests: of the register / reset requests that present the issued code of
\* one key together, at most one per issuance is accepted.
C16_OneAcceptance ==
    \A k \in Keys :
      /\ Cardinality(Accepted(k)) <= Cardinality(Issuers(k))
      /\ issued[k].wins <= 1

\* two requests presented the same code: one was accepted and still waits for
\* the database, the other was refused
C16_Witness ==
    \E r1, r2 \in DOMAIN handler :
      /\ handler[r1].kind = "verify" /\ handler[r1].pc = "db"
      /\ handler[r2].kind = "verify" /\ handler[r2].pc = "rejected"
      /\ handler[r1].key = handler[r2].key
      /\ handler[r1].code = handler[r2].code

\* C18: the total_ms of an upload response is the time from the admission
\* grant to the moment both units have settled (the processing time the
\* handler logs): it covers both unit durations and leaves out the time the
\* request waited for its slot.
C18_TotalExcludesWait ==
    response.kind = "ok" =>
      /\ response.total_ms = response.processing_ms
      /\ response.total_ms >= response.embed_ms
      /\ response.total_ms >= response.ai_ms

\* the sessions with a unit function still at work on its thread
Busy == {s \in Sessions : unitA[s] = "run" \/ unitB[s] = "run"}

\* C20: a session holds its slot as long as either of its units is running:
\* the release comes after both have settled, a waiter enters only after a
\* release, and so the units of at most 5 sessions are at work at once.
C20_SlotHeldWhileBusy ==
    /\ \A s \in Busy : acquires[s] = 1 /\ releases[s] = 0 /\ pc[s] = "running"
    /\ \A s \in Sessions : releases[s] = 1 => unitA[s] = "none" /\ unitB[s] = "none"
    /\ Cardinality(Busy) <= Ceiling
    /\ Len(admitted) <= Ceiling + Cardinality({s \in Sessions : releases[s] = 1})

\* the units of 5 sessions are at work, one of them admitted after a release,
\* and a caller is queued behind them
C20_Witness ==
    /\ Cardinality(Busy) = Ceiling
    /\ Len(admitted) = Ceiling + 1
    /\ Len(waiters) > 0

\* today's animation_count as get_today_usage reports it
RecordedCount == IF Len(usage) = 0 THEN 0 ELSE usage[1]

\* C19: a user who is no member creates at most 5 animations a day: however
\* the create_animation requests of the user interleave, neither the
\* animations committed that day nor the recorded animation_count exceed
\* FREE_USER_DAILY_LIMIT, and once every request has returned the
\* animation_count is the number of animations created.
C19_DailyLimit ==
    /\ animations <= FREE_USER_DAILY_LIMIT
    /\ Len(usage) <= 1
    /\ RecordedCount <= FREE_USER_DAILY_LIMIT
    /\ (\A r \in DOMAIN creator : creator[r].pc = "idle") => RecordedCount = animations

\* C21: no waiter starves: if every dispatched unit settles and the event
\* loop runs what is ready, every caller that is queued in acquire() is
\* admitted in the end, however many callers are queued before it.
C21_NoStarvation ==
    \A s \in Sessions \ (QueueEarly \cup QueueHolders) :
      (pc[s] = "waiting") ~> (pc[s] = "running")

\* the second of two queued callers has been admitted
C21_Witness ==
    /\ pc[MaxSessions] = "running"
    /\ blocked[MaxSessions] = "freed"
    /\ pc[MaxSessions - 1] \in {"running", "done"}
    /\ blocked[MaxSessions - 1] \in {"freed", "no"}
    /\ Len(admitted) = MaxSessions

\* the sessions in the block with a unit function that has not returned
Hung == {s \in Sessions : pc[s] = "running" /\ (unitA[s] = "run" \/ unitB[s] = "run")}

\* C22: nothing times out: a session leaves the block and releases its slot
\* only once both its units have settled, a queued caller leaves acquire()
\* only woken by a release, and while 5 sessions have a unit that has not
\* settled no caller is admitted and the queue only grows.
C22_NoTimeout ==
    [][(\A s \in Sessions :
          /\ (releases'[s] # releases[s] \/ (pc[s] = "running" /\ pc'[s] # "running"))
                => (unitA[s] = "settled" /\ unitB[s] = "settled")
          /\ (pc[s] = "waiting" /\ pc'[s] # "waiting")
                => (s \in futDone /\ pc'[s] = "running"))
       /\ (Cardinality(Hung) = Ceiling =>
             (/\ admitted' = admitted
              /\ sem_value' = 0
              /\ futDone' = {}
              /\ \A i \in 1..Len(waiters) : waiters'[i] = waiters[i]
              /\ Len(waiters') >= Len(waiters)))]_vars

\* 5 sessions have a unit that has not settled and two callers are queued
C22_Witness ==
    /\ Cardinality(Hung) = Ceiling
    /\ Len(waiters) = 2
    /\ futDone = {}

\* C23: within a session each unit is dispatched exactly once: both units go
\* to the pool together when the session enters the block for the first and
\* only time, a unit that has returned or raised is never dispatched again,
\* and the handler answers after that one attempt, whatever the units did.
C23_DispatchedOnce ==
    [][\A s \in Sessions :
         /\ ((unitA'[s] = "run" /\ unitA[s] # "run") \/ (unitB'[s] = "run" /\ unitB[s] # "run"))
               => (/\ unitA[s] = "none" /\ unitB[s] = "none"
                   /\ unitA'[s] = "run" /\ unitB'[s] = "run"
                   /\ acquires[s] = 0 /\ acquires'[s] = 1)
         /\ (unitA[s] = "settled" /\ unitB[s] = "settled")
               => (pc'[s] \in {"running", "done"} /\ unitA'[s] # "run" /\ unitB'[s] # "run")
         /\ pc[s] = "done"
               => (pc'[s] = "done" /\ unitA'[s] = "none" /\ unitB'[s] = "none")]_vars

\* a session whose units both failed has answered, one attempt made
C23_Witness ==
    /\ response.kind = "ok"
    /\ gathered.a \in AFaults
    /\ gathered.b \in {"raise", "fail"}
    /\ pc[response.sid] = "done"
    /\ acquires[response.sid] = 1
    /\ unitA[response.sid] = "none" /\ unitB[response.sid] = "none"

\* the store with the records of all keys but k removed
Only(st, k) == [j \in Keys |-> IF j = k THEN st[j] ELSE None]

\* C24: can_send, generate_and_store_code and verify_code on a key leave the
\* record of every other key as it was, and what they return is what they
\* would return if the other keys had no record at all; so a code issued for
\* (phone, "register") is not accepted under (phone, "reset_password").
C24_KeyIsolation ==
    reply.op \in {"can_send", "generate", "verify"} =>
      /\ \A k \in Keys \ {reply.key} : store[k] = reply.old[k]
      /\ reply.op = "can_send" =>
           /\ store = reply.old
           /\ can_send(Only(reply.old, reply.key), reply.key, reply.interval, clock)
                = <<reply.ok, reply.wait>>
      /\ reply.op = "generate" =>
           LET g == generate_and_store_code(Only(reply.old, reply.key), reply.key,
                                            reply.code, clock)
           IN  g[1] = reply.ok /\ g[3] = reply.wait /\ g[4][reply.key] = store[reply.key]
      /\ reply.op = "verify" =>
           LET v == verify_code(Only(reply.old, reply.key), reply.key, reply.code, clock)
           IN  v[1] = reply.ok /\ v[2] = reply.msg /\ v[3][reply.key] = store[reply.key]
      /\ reply.op = "verify" /\ reply.old[reply.key] = None => ~reply.ok

\* the code that is live for (phone, "register") was presented under
\* (phone, "reset_password") and not found
C24_Witness ==
    /\ reply.op = "verify"
    /\ reply.key[2] = "reset_password"
    /\ reply.msg = "not_found"
    /\ store[reply.key] = None
    /\ LET other == <<reply.key[1], "register">>
       IN  /\ store[other] # None
           /\ store[other].code = reply.code
           /\ clock <= store[other].expire_at

\* the instants at which a later call is looked at: now and each advance of
\* the clock from now
Later == {clock + d : d \in {0} \cup ClockSteps}

\* two stores that differ by records expired at time now only
SameLive(a, b, now) ==
    \A k \in Keys :
      \/ a[k] = b[k]
      \/ /\ a[k] = None \/ now > a[k].expire_at
         /\ b[k] = None \/ now > b[k].expire_at

\* C25: cleanup_expired removes exactly the records that get() would no longer
\* return and leaves the others as they are; and the sweep cannot be seen
\* through verify_code: at any later instant verify_code answers the same on
\* the swept store and on the store as it was, for every key and code, and a
\* verification or an issuance leaves the two differing by expired records only.
C25_SweepInvisible ==
    reply.op = "cleanup" =>
      /\ \A k \in Keys :
           /\ store[k] # None => store[k] = reply.old[k]
           /\ store[k] = None <=> store_get(reply.old, k, clock)[1] = None.code
      /\ \A t \in Later : \A k \in Keys :
           /\ \A c \in Candidates :
                LET a == verify_code(reply.old, k, c, t)
                    b == verify_code(store, k, c, t)
                IN  a[1] = b[1] /\ a[2] = b[2] /\ SameLive(a[3], b[3], t)
           /\ \A c \in generate_code(VERIFICATION_CODE_LENGTH) :
                LET a == generate_and_store_code(reply.old, k, c, t)
                    b == generate_and_store_code(store, k, c, t)
                IN  a[1] = b[1] /\ a[2] = b[2] /\ a[3] = b[3] /\ SameLive(a[4], b[4], t)

\* the sweep removed the expired record of one key and left the record of
\* the other, which is at its deadline
C25_Witness ==
    /\ reply.op = "cleanup"
    /\ \E k1, k2 \in Keys :
         /\ reply.old[k1] # None /\ store[k1] = None
         /\ store[k2] # None /\ clock = store[k2].expire_at

\* request r is the last for its key that changed the key's record: no later
\* request issued a code for the key or had one accepted
LastWriter(r) ==
    \A q \in DOMAIN handler :
      q > r /\ handler[q].key = handler[r].key =>
        handler[q].pc \in {"limited", "rejected"}

\* C26: a send-code request whose SMS failed has answered with an error, yet
\* its code is the key's record: the code verifies until its lifetime is over,
\* and a further send-code for the key is refused as rate-limited until the
\* resend interval has gone by.
C26_NoRollback ==
    \A r \in DOMAIN handler :
      handler[r].kind = "send" /\ handler[r].pc = "sms_failed" /\ LastWriter(r) =>
        LET k == handler[r].key
            life == ExpireTicks(VERIFICATION_CODE_EXPIRE_MINUTES)
            rate == RateTicks(SMS_RATE_LIMIT_SECONDS)
        IN  /\ store[k] = [code |-> handler[r].code, expire_at |-> clock + life,
                           created_at |-> clock]
            /\ \A t \in {clock, clock + 1, clock + life} :
                 verify_code(store, k, handler[r].code, t)[1]
            /\ ~verify_code(store, k, handler[r].code, clock + life + 1)[1]
            /\ \A t \in {clock, clock + 1, clock + rate - 1} :
                 \A c \in generate_code(VERIFICATION_CODE_LENGTH) :
                   LET g == generate_and_store_code(store, k, c, t)
                   IN  ~g[1] /\ g[4] = store
            /\ \A c \in generate_code(VERIFICATION_CODE_LENGTH) :
                 generate_and_store_code(store, k, c, clock + rate)[1]

\* the SMS of one request failed and the next send-code request for the key
\* was refused
C26_Witness ==
    \E r, q \in DOMAIN handler :
      /\ q = r + 1 /\ q = Len(handler)
      /\ handler[r].kind = "send" /\ handler[r].pc = "sms_failed"
      /\ handler[q].kind = "send" /\ handler[q].pc = "limited"
      /\ handler[q].key = handler[r].key
      /\ reply.op = "generate" /\ ~reply.ok /\ reply.wait = SMS_RATE_LIMIT_SECONDS

\* C27: register and reset_password consume the code when it matches, before
\* they look for the user: a request whose code was accepted and that then
\* fails on the user check (or still waits for the database) has left no
\* record for the key, and the same code presented again is not found.
C27_ConsumedBeforeUserCheck ==
    \A r \in DOMAIN handler :
      handler[r].kind = "verify" /\ handler[r].pc \in {"db", "user_error"}
        /\ LastWriter(r) =>
          /\ store[handler[r].key] = None
          /\ verify_code(store, handler[r].key, handler[r].code, clock)
               = <<FALSE, "not_found", store>>

\* a request with the right code failed on the user check and the retry with
\* the same code was answered not found
C27_Witness ==
    \E r, q \in DOMAIN handler :
      /\ r < q /\ q = Len(handler)
      /\ handler[r].kind = "verify" /\ handler[r].pc = "user_error"
      /\ handler[q].kind = "verify" /\ handler[q].pc = "rejected"
      /\ handler[q].key = handler[r].key /\ handler[q].code = handler[r].code
      /\ reply.op = "verify" /\ reply.msg = "not_found"

\* the requests of endpoint e that are in acquire(), woken or not, and those
\* that hold a slot: inside the block, or woken with the slot taken for them
InAcquire(e) ==
    {u \in Uploads : \E m \in Endpoints : \E i \in 1..Len(routers[m].waiters) :
                        routers[m].waiters[i] = <<e, u>>}
Holding(e) ==
    routers[e].inside \cup
      {u \in Uploads : \E m \in Endpoints : <<e, u>> \in routers[m].done}

\* each endpoint has its own 5 slots
OwnSlots ==
    \A e \in Endpoints :
      /\ Cardinality(Holding(e)) <= Ceiling
      /\ routers[e].value + Cardinality(Holding(e)) = Ceiling

\* C28: the physics and the electric upload endpoint each have a semaphore
\* of their own with 5 slots: per endpoint the sessions that hold a slot and
\* the value of its semaphore add up to 5 (so at most 5 are in progress per
\* endpoint, at most 10 in the process); a step of one endpoint leaves the
\* semaphore and the sessions of the other as they are; and a request to an
\* endpoint with fewer than 5 sessions in its block and nobody in its
\* acquire() is admitted at once, whatever the other endpoint holds or queues.
C28_SeparateSemaphores ==
    [][/\ OwnSlots
       /\ OwnSlots'
       /\ \A e \in Endpoints :
            /\ (routers'[e] # routers[e])
                  => (\A f \in Endpoints \ {e} : routers'[f] = routers[f])
            /\ (/\ routers'[e].arrived # routers[e].arrived
                /\ Cardinality(routers[e].inside) < Ceiling
                /\ InAcquire(e) = {})
                  => (routers'[e].arrived \in routers'[e].inside)]_vars

\* 10 sessions are in their blocks, 5 per endpoint, and a caller is queued on
\* the physics endpoint
C28_Witness ==
    /\ Cardinality(routers["physics"].inside) = Ceiling
    /\ Cardinality(routers["electric"].inside) = Ceiling
    /\ InAcquire("physics") # {}
    /\ InAcquire("electric") = {}

\* the unit functions submitted to _executor that have not returned
UnitsAtWork ==
    Cardinality({s \in Sessions : unitA[s] = "run"})
      + Cardinality({s \in Sessions : unitB[s] = "run"})

\* the sessions inside the block of the handler
InBlock == {s \in Sessions : acquires[s] > releases[s]}

\* C29: the unit functions submitted to the endpoint's pool that have not
\* finished are at most two per session in the block, hence at most 10, the
\* number of workers of the pool: whenever a session dispatches its two units
\* two workers are free, and no unit queues behind a unit of another session.
C29_PoolNeverQueues ==
    /\ UnitsAtWork <= 2 * Cardinality(InBlock)
    /\ Cardinality(InBlock) <= Ceiling
    /\ UnitsAtWork <= max_workers
    /\ \A s \in Sessions : s \notin InBlock => unitA[s] # "run" /\ unitB[s] # "run"

\* all 10 workers are taken by the units of 5 sessions, one of them admitted
\* after a release, and a caller is queued
C29_Witness ==
    /\ UnitsAtWork = max_workers
    /\ Len(admitted) > Ceiling
    /\ Len(waiters) > 0

\* C30: the wait can_send returns is a whole number of seconds between 0 and
\* the interval asked about: 0 whenever sending is allowed, and 0 as well when
\* sending is refused with less than a second of the interval left; the wait
\* generate_and_store_code passes on is in the same range.
C30_WaitRange ==
    /\ reply.op = "can_send" =>
         LET left == RateTicks(reply.interval) - (clock - reply.old[reply.key].created_at)
         IN  /\ reply.wait \in 0..reply.interval
             /\ reply.ok => reply.wait = 0
             /\ ~reply.ok => /\ left > 0
                             /\ reply.wait * TicksPerSec <= left
                             /\ left < (reply.wait + 1) * TicksPerSec
             /\ ~reply.ok /\ left < TicksPerSec => reply.wait = 0
    /\ reply.op = "generate" =>
         /\ reply.wait \in 0..SMS_RATE_LIMIT_SECONDS
         /\ reply.ok => reply.wait = 0

\* can_send for the default interval returned (False, 0), half a second of
\* the interval left
C30_Witness ==
    /\ reply.op = "can_send"
    /\ reply.interval = SMS_RATE_LIMIT_SECONDS
    /\ ~reply.ok
    /\ reply.wait = 0

=============================================================================
